---- MODULE Spec2Model ----
(***************************************************************************)
(* Model of add_templated_resource.py: the query filter (run_query), the   *)
(* flattener (flatten_dict), the variable merger (merge_params) and the    *)
(* main run (query, expand the template per result, list, confirm, POST).  *)
(* Spec is the run of the script from line 138 on; FnSpec applies          *)
(* flatten_dict and merge_params to every record of a bounded set of       *)
(* nested records.                                                         *)
(*                                                                         *)
(* Data.  A Python string is a sequence of one-character strings, so that  *)
(* splitting, joining, formatting and matching are computed character by   *)
(* character.  A JSON value is a record [t, v, items]:                     *)
(*   t = "s": a string v;                                                  *)
(*   t = "n": a scalar that is no string (number, boolean, null), whose    *)
(*            string form is v;                                            *)
(*   t = "d": a mapping, items = its <<key, value>> pairs in items() order;*)
(*   t = "l": a sequence, items = its elements in order.                   *)
(* A one-level Python dict whose iteration order is never observed         *)
(* (flattened, merged_params, params['vars']) is a function from keys to   *)
(* values.                                                                 *)
(***************************************************************************)
EXTENDS Integers, Sequences, FiniteSets, TLC

\* ------------------------------------------------------- string literals
K_a == <<"a">>
K_b == <<"b">>
K_a_b == <<"a", "_", "b">>
K_b_0 == <<"b", "_", "0">>
K_0 == <<"0">>
K_x == <<"x">>
K_cid == <<"_", "c", "i", "d">>
K_title == <<"t", "i", "t", "l", "e">>
K_display_name ==
    <<"d", "i", "s", "p", "l", "a", "y", "_", "n", "a", "m", "e">>
K_name == <<"n", "a", "m", "e">>
K_tags == <<"t", "a", "g", "s">>
K_group1 == <<"g", "r", "o", "u", "p", "1">>
K_kind == <<"k", "i", "n", "d">>
K_id == <<"i", "d">>
V_static == <<"s", "t", "a", "t", "i", "c">>
V_cli == <<"c", "l", "i">>
V_orig == <<"o", "r", "i", "g">>
V_graph == <<"g", "r", "a", "p", "h">>
V_port7 == <<"p", "o", "r", "t", " ", "7">>
V_aport12b == <<"a", " ", "p", "o", "r", "t", " ", "1", "2", "b">>
V_uplink == <<"u", "p", "l", "i", "n", "k">>
V_t == <<"t">>
F_port ==
    <<"d", "i", "s", "p", "l", "a", "y", "_", "n", "a", "m", "e", "=", "p",
      "o", "r", "t", " ", "(", "\\", "d", "+", ")">>
F_default == <<".", "*">>
F_two ==
    <<"d", "i", "s", "p", "l", "a", "y", "_", "n", "a", "m", "e", "=", "(",
      ".", "+", ")", "t", " ", "(", ".", ")">>
F_eq == <<"n", "a", "m", "e", "=", "p", "=", "(", ".", ")">>
P_port == <<"P", "o", "r", "t", " ", "{", "g", "r", "o", "u", "p", "1", "}">>
P_name ==
    <<"{", "d", "i", "s", "p", "l", "a", "y", "_", "n", "a", "m", "e", "}">>
P_braces ==
    <<"{", "g", "r", "o", "u", "p", "1", "}", " ", "{", "{", "x", "}", "}">>
P_id == <<"{", "i", "d", "}">>
P_kind == <<"/", "{", "k", "i", "n", "d", "}">>
P_group2 == <<"x", " ", "{", "g", "r", "o", "u", "p", "2", "}">>
E_check_bundle ==
    <<"c", "h", "e", "c", "k", "_", "b", "u", "n", "d", "l", "e">>
C_graph == <<"/", "g", "r", "a", "p", "h">>
C_check_bundle ==
    <<"/", "c", "h", "e", "c", "k", "_", "b", "u", "n", "d", "l", "e">>
C_rule_set == <<"/", "r", "u", "l", "e", "_", "s", "e", "t">>
C_worksheet == <<"/", "w", "o", "r", "k", "s", "h", "e", "e", "t">>
C_template == <<"/", "t", "e", "m", "p", "l", "a", "t", "e">>
C_contact_group ==
    <<"/", "c", "o", "n", "t", "a", "c", "t", "_", "g", "r", "o", "u", "p">>
C_account == <<"/", "a", "c", "c", "o", "u", "n", "t">>
C_broker == <<"/", "b", "r", "o", "k", "e", "r">>
C_user == <<"/", "u", "s", "e", "r">>
C_nope == <<"/", "n", "o", "p", "e">>
T_title == <<"t", "i", "t", "l", "e">>
T_display_name ==
    <<"d", "i", "s", "p", "l", "a", "y", "_", "n", "a", "m", "e">>
T_metric_name == <<"m", "e", "t", "r", "i", "c", "_", "n", "a", "m", "e">>
T_description == <<"d", "e", "s", "c", "r", "i", "p", "t", "i", "o", "n">>
T_name == <<"n", "a", "m", "e">>
T__name == <<"_", "n", "a", "m", "e">>
T_email == <<"e", "m", "a", "i", "l">>
V_Port7 == <<"P", "o", "r", "t", " ", "7">>
V_p_eq_7 == <<"p", "=", "7">>

\* ------------------------------------------------------------------ values
Sc(s) == [t |-> "s", v |-> s, items |-> <<>>]
Num(s) == [t |-> "n", v |-> s, items |-> <<>>]
Dict(its) == [t |-> "d", v |-> <<>>, items |-> its]
List(its) == [t |-> "l", v |-> <<>>, items |-> its]

EmptyMap == [k \in {} |-> <<>>]

\* dict.update(other): entries of other overwrite same-named entries.
update(m, other) == other @@ m

\* d[k] = val on a mapping value: an existing key keeps its position, a new
\* key is added at the end of items().
setitem(d, k, val) ==
    IF \E i \in 1..Len(d.items) : d.items[i][1] = k
    THEN Dict([i \in 1..Len(d.items) |->
                 IF d.items[i][1] = k THEN <<k, val>> ELSE d.items[i]])
    ELSE Dict(Append(d.items, <<k, val>>))

haskey(d, k) == \E i \in 1..Len(d.items) : d.items[i][1] = k

getitem(d, k) == d.items[CHOOSE i \in 1..Len(d.items) : d.items[i][1] = k][2]

\* "%s" % n for a non-negative integer n.
DigitChar == <<"0", "1", "2", "3", "4", "5", "6", "7", "8", "9">>

RECURSIVE IntStr(_)
IntStr(n) ==
    IF n < 10 THEN <<DigitChar[n + 1]>>
    ELSE IntStr(n \div 10) \o <<DigitChar[(n % 10) + 1]>>

\* "%s_%s" % (key, k)
joinkey(key, k) == key \o <<"_">> \o k

\* -------------------------------------------------------------- flatten_dict
\* Variant: positions counted from 1.
enumerate_dict_from1(l) ==
    Dict([i \in 1..Len(l.items) |-> <<IntStr(i), l.items[i]>>])

\* dict(enumerate(l)): the sequence as a mapping keyed by position from 0.
enumerate_dict(l) ==
    Dict([i \in 1..Len(l.items) |-> <<IntStr(i - 1), l.items[i]>>])

is_scalar(e) == e[2].t \notin {"d", "l"}
is_list(e) == e[2].t = "l"
is_dict(e) == e[2].t = "d"

\* Variant: the converted sequences first, then the nested mappings.
dicts_of_lists_first(d) ==
    LET lists == SelectSeq(d.items, is_list)
    IN  [i \in 1..Len(lists) |-> <<lists[i][1], enumerate_dict(lists[i][2])>>]
        \o SelectSeq(d.items, is_dict)

\* The list `dicts` of flatten_dict: the nested mappings in items() order,
\* then the sequences, converted, in items() order.
dicts_of(d) ==
    LET lists == SelectSeq(d.items, is_list)
    IN  SelectSeq(d.items, is_dict)
        \o [i \in 1..Len(lists) |-> <<lists[i][1], enumerate_dict(lists[i][2])>>]

\* flattened.update(scalars)
scalars_of(d) ==
    LET scalars == SelectSeq(d.items, is_scalar)
    IN  [k \in {scalars[i][1] : i \in 1..Len(scalars)} |->
           scalars[CHOOSE i \in 1..Len(scalars) : scalars[i][1] = k][2]]

\* dict(("%s_%s" % (key, k), v) for k, v in flattened_d.items())
rekey(key, flattened_d) ==
    [nk \in {joinkey(key, k) : k \in DOMAIN flattened_d} |->
       flattened_d[CHOOSE k \in DOMAIN flattened_d : joinkey(key, k) = nk]]

RECURSIVE flatten_dict(_)
RECURSIVE flatten_loop(_, _, _)
\* for key, d in dicts: flattened.update(rekeyed flatten_dict(d)), from the
\* n-th element of dicts on.
flatten_loop(dicts, n, flattened) ==
    IF n > Len(dicts) THEN flattened
    ELSE flatten_loop(dicts, n + 1,
           update(flattened, rekey(dicts[n][1], flatten_dict(dicts[n][2]))))

flatten_dict(d) == flatten_loop(dicts_of(d), 1, update(EmptyMap, scalars_of(d)))

\* The argument object d as flatten_dict leaves it: d.items() is only read,
\* the loop variable `d` is rebound and the list `dicts` is local.
flatten_dict_arg(d) == d

\* ------------------------------------------------------------- merge_params
\* Variant: the two updates in the other order, static entries win.
merge_params_static_wins(static_vars, resource) ==
    update(update(EmptyMap, flatten_dict(resource)), static_vars)

merge_params(static_vars, resource) ==
    update(update(EmptyMap, static_vars), flatten_dict(resource))

\* Variant: static_vars itself is updated and returned.
merge_params_args_inplace(static_vars, resource) ==
    <<update(static_vars, flatten_dict(resource)), flatten_dict_arg(resource)>>

\* The argument objects <<static_vars, resource>> as merge_params leaves
\* them: both updates are applied to the fresh dict merged_params.
merge_params_args(static_vars, resource) ==
    <<static_vars, flatten_dict_arg(resource)>>

\* ---------------------------------------------------------------- re.search
\* The pattern language: a literal character, "." (any character), "\d" (a
\* digit), "\c" (the character c), an atom followed by "*" or "+" (greedy),
\* and unnested capture groups "(" ... ")".
Digits == {"0", "1", "2", "3", "4", "5", "6", "7", "8", "9"}

atom_len(p, pi) == IF p[pi] = "\\" THEN 2 ELSE 1

atom_matches(p, pi, ch) ==
    IF p[pi] = "\\"
    THEN IF p[pi + 1] = "d" THEN ch \in Digits ELSE ch = p[pi + 1]
    ELSE IF p[pi] = "." THEN TRUE ELSE ch = p[pi]

\* Number of capture groups opened in p[1..pi].
RECURSIVE groups_upto(_, _)
groups_upto(p, pi) ==
    IF pi = 0 THEN 0
    ELSE groups_upto(p, pi - 1)
         + (IF p[pi] = "(" /\ (pi = 1 \/ p[pi - 1] # "\\") THEN 1 ELSE 0)

\* Length of the longest run of characters of s from sj on that the atom at
\* pi matches.
RECURSIVE max_run(_, _, _, _)
max_run(p, pi, s, sj) ==
    IF sj <= Len(s) /\ atom_matches(p, pi, s[sj])
    THEN 1 + max_run(p, pi, s, sj + 1) ELSE 0

\* The matches of p[pi..] against s from position sj, in the order a
\* backtracking matcher tries them; each is [end, caps], caps[g] the
\* <<first, last + 1>> positions of group g.
RECURSIVE re_match(_, _, _, _, _)
RECURSIVE re_greedy(_, _, _, _, _, _, _)
re_greedy(p, pnext, s, sj, caps, n, least) ==
    IF n < least THEN <<>>
    ELSE re_match(p, pnext, s, sj + n, caps)
         \o re_greedy(p, pnext, s, sj, caps, n - 1, least)

re_match(p, pi, s, sj, caps) ==
    IF pi > Len(p) THEN <<[end |-> sj, caps |-> caps]>>
    ELSE IF p[pi] = "("
    THEN re_match(p, pi + 1, s, sj,
                  [caps EXCEPT ![groups_upto(p, pi)] = <<sj, sj>>])
    ELSE IF p[pi] = ")"
    THEN re_match(p, pi + 1, s, sj,
                  [caps EXCEPT ![groups_upto(p, pi)] = <<@[1], sj>>])
    ELSE LET q == pi + atom_len(p, pi)
         IN  IF q <= Len(p) /\ p[q] \in {"*", "+"}
             THEN re_greedy(p, q + 1, s, sj, caps, max_run(p, pi, s, sj),
                            IF p[q] = "+" THEN 1 ELSE 0)
             ELSE IF sj <= Len(s) /\ atom_matches(p, pi, s[sj])
             THEN re_match(p, q, s, sj + 1, caps)
             ELSE <<>>

\* re.search(p, s): the first match at the leftmost position that has one.
\* [matched, groups]: groups is match.groups().
RECURSIVE re_search_from(_, _, _)
re_search_from(p, s, start) ==
    IF start > Len(s) + 1 THEN [matched |-> FALSE, groups |-> <<>>]
    ELSE LET ng == groups_upto(p, Len(p))
             ms == re_match(p, 1, s, start, [g \in 1..ng |-> <<0, 0>>])
         IN  IF ms # <<>>
             THEN [matched |-> TRUE,
                   groups |-> [g \in 1..ng |->
                                 SubSeq(s, ms[1].caps[g][1], ms[1].caps[g][2] - 1)]]
             ELSE re_search_from(p, s, start + 1)

re_search(p, s) == re_search_from(p, s, 1)

\* ---------------------------------------------------------------- run_query
\* params['filter'].split('=', 1): one part when there is no '=', else the
\* text before the first '=' and the text after it.
RECURSIVE find_char(_, _, _)
find_char(s, c, i) ==
    IF i > Len(s) THEN 0 ELSE IF s[i] = c THEN i ELSE find_char(s, c, i + 1)

\* Variant: a filter without '=' is a regex on the field with the empty name.
split_filter_lenient(f) ==
    LET i == find_char(f, "=", 1)
    IN  IF i = 0 THEN <<<<>>, f>>
        ELSE <<SubSeq(f, 1, i - 1), SubSeq(f, i + 1, Len(f))>>

split_filter(f) ==
    LET i == find_char(f, "=", 1)
    IN  IF i = 0 THEN <<f>> ELSE <<SubSeq(f, 1, i - 1), SubSeq(f, i + 1, Len(f))>>

\* Variant: 'group%s' % i, numbering from 0.
group_key_from0(i) == <<"g", "r", "o", "u", "p">> \o IntStr(i)

\* 'group%s' % (i+1)
group_key(i) == <<"g", "r", "o", "u", "p">> \o IntStr(i + 1)

\* for i, j in enumerate(match.groups()): r['group%s' % (i+1)] = j, from
\* the i-th (0-based) group on.
RECURSIVE add_groups(_, _, _)
add_groups(r, groups, i) ==
    IF i >= Len(groups) THEN r
    ELSE add_groups(setitem(r, group_key(i), Sc(groups[i + 1])), groups, i + 1)

\* -------------------------------------------------------------- Template.sub
\* str.format on one template string with the merged variables: "{name}" is
\* replaced by the string form of vars[name], "{{" and "}}" stand for the
\* brace.  [ok, out]; ok is FALSE when a name is not in vars or a brace is
\* unbalanced.
RECURSIVE format(_, _, _)
format(s, i, vars) ==
    IF i > Len(s) THEN [ok |-> TRUE, out |-> <<>>]
    ELSE IF s[i] \in {"{", "}"} /\ i < Len(s) /\ s[i + 1] = s[i]
    THEN LET rest == format(s, i + 2, vars)
         IN  [ok |-> rest.ok, out |-> <<s[i]>> \o rest.out]
    ELSE IF s[i] = "{"
    THEN LET j == find_char(s, "}", i + 1)
             name == SubSeq(s, i + 1, j - 1)
         IN  IF j = 0 \/ name \notin DOMAIN vars
             THEN [ok |-> FALSE, out |-> <<>>]
             ELSE LET rest == format(s, j + 1, vars)
                  IN  [ok |-> rest.ok, out |-> vars[name].v \o rest.out]
    ELSE IF s[i] = "}" THEN [ok |-> FALSE, out |-> <<>>]
    ELSE LET rest == format(s, i + 1, vars)
         IN  [ok |-> rest.ok, out |-> <<s[i]>> \o rest.out]

\* Whether the substitution of every string of the template tree succeeds.
RECURSIVE sub_ok(_, _)
sub_ok(tree, vars) ==
    IF tree.t = "s" THEN format(tree.v, 1, vars).ok
    ELSE IF tree.t = "d"
    THEN \A i \in 1..Len(tree.items) : sub_ok(tree.items[i][2], vars)
    ELSE IF tree.t = "l"
    THEN \A i \in 1..Len(tree.items) : sub_ok(tree.items[i], vars)
    ELSE TRUE

\* The substituted tree: structure, keys and order kept, strings formatted,
\* other scalars unchanged.
RECURSIVE sub(_, _)
sub(tree, vars) ==
    IF tree.t = "s" THEN Sc(format(tree.v, 1, vars).out)
    ELSE IF tree.t = "d"
    THEN Dict([i \in 1..Len(tree.items) |->
                 <<tree.items[i][1], sub(tree.items[i][2], vars)>>])
    ELSE IF tree.t = "l"
    THEN List([i \in 1..Len(tree.items) |-> sub(tree.items[i], vars)])
    ELSE tree


\* --------------------------------------------------------------- main script
\* title_fields, lines 152-162.
title_fields ==
    C_graph :> T_title @@ C_check_bundle :> T_display_name
    @@ C_rule_set :> T_metric_name @@ C_worksheet :> T_description
    @@ C_template :> T_name @@ C_contact_group :> T_name
    @@ C_account :> T_name @@ C_broker :> T__name @@ C_user :> T_email

\* Variant: to_add.append(processed) whatever its type.
collect_append(acc, processed) == Append(acc, processed)

\* if type(processed) == list: to_add.extend(processed)
\* else: to_add.append(processed)
collect(acc, processed) ==
    IF processed.t = "l" THEN acc \o processed.items ELSE Append(acc, processed)

\* Variant: a record whose _cid is not in title_fields is listed under its
\* _cid instead of raising.
title_lookup_default(rec) ==
    IF rec.t # "d" THEN "TypeError"
    ELSE IF ~haskey(rec, K_cid) THEN "KeyError"
    ELSE "ok"

\* The title-field lookup of lines 164-165 and 168-169 on one output record:
\* "ok", or the exception it raises.
title_lookup(rec) ==
    IF rec.t # "d" THEN "TypeError"
    ELSE IF ~haskey(rec, K_cid) THEN "KeyError"
    ELSE IF getitem(rec, K_cid).t # "s" THEN "KeyError"
    ELSE IF getitem(rec, K_cid).v \notin DOMAIN title_fields THEN "KeyError"
    ELSE IF ~haskey(rec, title_fields[getitem(rec, K_cid).v]) THEN "KeyError"
    ELSE "ok"

\* -------------------------------------------------------------------- bounds
MaxResults == 2
MaxWidth == 2
MaxListLen == 1

\* -------------------------------------------------------------------- inputs
SeqsUpTo(S, n) == UNION {[1..m -> S] : m \in 0..n}

\* The items() of the mappings with at most n entries, keys from Keys (each
\* at most once), values from Vals.
ItemsUpTo(Keys, Vals, n) ==
    {its \in SeqsUpTo(Keys \X Vals, n) :
       \A i, j \in 1..Len(its) : its[i][1] = its[j][1] => i = j}

Scalars == {Num(<<"1">>), Num(<<"2">>)}
RootKeys == {K_a, K_a_b, K_x}
InnerKeys == {K_b, K_b_0, K_0}
InnerDicts == {Dict(its) : its \in ItemsUpTo(InnerKeys, Scalars, 1)}
InnerLists == {List(its) : its \in SeqsUpTo(Scalars, MaxListLen)}
DeepDicts ==
    {Dict(<< <<K_b, c>> >>) :
       c \in {Dict(<< <<K_0, s>> >>) : s \in Scalars}
             \cup {List(<<s>>) : s \in Scalars}}

\* The records flatten_dict and merge_params are applied to.
Roots ==
    {Dict(its) :
       its \in ItemsUpTo(RootKeys,
                         Scalars \cup InnerDicts \cup InnerLists \cup DeepDicts,
                         MaxWidth)}

\* The static variables merge_params is applied to.
Statics ==
    {EmptyMap, K_x :> Sc(V_static), K_a_b :> Sc(V_static),
     K_x :> Sc(V_static) @@ K_a_b :> Sc(V_static)}

\* The -f option: without '=', with one group, with two groups, with a
\* second '='.
Filters == {F_default, F_port, F_two, F_eq}

\* The records the GET query may return.
R_port7 == Dict(<< <<K_display_name, Sc(V_port7)>> >>)
R_port12 ==
    Dict(<< <<K_group1, Sc(V_orig)>>, <<K_display_name, Sc(V_aport12b)>>,
            <<K_tags, List(<<Sc(V_t)>>)>>, <<K_id, Num(<<"5">>)>> >>)
R_uplink ==
    Dict(<< <<K_display_name, Sc(V_uplink)>>, <<K_group1, Sc(V_orig)>> >>)
R_named ==
    Dict(<< <<K_name, Sc(V_p_eq_7)>>,
            <<K_display_name, Dict(<< <<K_a, Sc(V_t)>> >>)>> >>)
ApiRecords == {R_port7, R_port12, R_uplink, R_named}
ApiResults == SeqsUpTo(ApiRecords, MaxResults)

\* The VAR=VALUE arguments after parse_nv_params.
CliVars == {EmptyMap, K_group1 :> Sc(V_cli) @@ K_kind :> Sc(V_graph)}

\* The template files: one mapping, a sequence of two mappings, a mapping
\* whose _cid and title are placeholders, a mapping for an endpoint that
\* title_fields does not have.
T_graph == Dict(<< <<K_cid, Sc(C_graph)>>, <<K_title, Sc(P_port)>> >>)
T_pair ==
    List(<< Dict(<< <<K_cid, Sc(C_graph)>>, <<K_title, Sc(P_name)>>,
                    <<K_id, Num(<<"5">>)>> >>),
            Dict(<< <<K_cid, Sc(C_check_bundle)>>,
                    <<K_display_name, Sc(P_braces)>> >>) >>)
T_kind == Dict(<< <<K_cid, Sc(P_kind)>>, <<K_title, Sc(P_id)>> >>)
T_nope == Dict(<< <<K_cid, Sc(C_nope)>>, <<K_title, Sc(P_group2)>> >>)
Templates == {T_graph, T_pair, T_kind, T_nope}

\* ---------------------------------------------------------------------- state
VARIABLES
    pc,                \* position in the script
    filter,            \* params['filter']
    params_vars,       \* params['vars']; static_vars of merge_params
    tmpl,              \* the template tree of t
    api_results,       \* `results` of run_query: the records the GET returned
    filtered_results,  \* filtered_results of run_query, `results` of the script
    k, v,              \* the two parts of the filter
    idx,               \* 1-based position of the running for loop
    r,                 \* the record flatten_dict / merge_params was called on
    flattened,         \* the last result of flatten_dict
    merged_params,     \* the last result of merge_params
    to_add,            \* the output records
    calls,             \* the api.api_call calls made, with their outcome
    err,               \* the uncaught exception that ended the run
    tested,            \* number of re.search calls made
    expanded,          \* number of results merged and substituted
    listed,            \* number of output records whose title was logged
    answer             \* what util.confirm returned

vars ==
    <<pc, filter, params_vars, tmpl, api_results, filtered_results, k, v, idx,
      r, flattened, merged_params, to_add, calls, err, tested, expanded,
      listed, answer>>

\* One api.api_call: data is the record sent by a POST, the decoded response
\* of a GET.
Call(method, path, data, outcome) ==
    [method |-> method, path |-> path, data |-> data, outcome |-> outcome]

\* The state after line 137: options and arguments parsed, template loaded.
Init ==
    /\ pc = "query"
    /\ filter \in Filters
    /\ params_vars \in CliVars
    /\ tmpl \in Templates
    /\ api_results = <<>>
    /\ filtered_results = <<>>
    /\ k = <<>>
    /\ v = <<>>
    /\ idx = 0
    /\ r = Dict(<<>>)
    /\ flattened = EmptyMap
    /\ merged_params = EmptyMap
    /\ to_add = <<>>
    /\ calls = <<>>
    /\ err = "none"
    /\ tested = 0
    /\ expanded = 0
    /\ listed = 0
    /\ answer = "none"

\* An uncaught exception ends the script.
Abort(e) == pc' = "aborted" /\ err' = e

\* run_query, line 55: the GET returns the records.
ApiGet ==
    /\ pc = "query"
    /\ \E res \in ApiResults :
         /\ api_results' = res
         /\ calls' = Append(calls, Call("GET", E_check_bundle, List(res), "ok"))
    /\ pc' = "split"
    /\ UNCHANGED <<filter, params_vars, tmpl, filtered_results, k, v, idx, r,
                   flattened, merged_params, to_add, err, tested, expanded,
                   listed, answer>>

\* run_query, line 55: the GET raises CirconusAPIError, which nothing catches.
ApiGetFails ==
    /\ pc = "query"
    /\ calls' = Append(calls, Call("GET", E_check_bundle, Dict(<<>>),
                                   "CirconusAPIError"))
    /\ Abort("CirconusAPIError")
    /\ UNCHANGED <<filter, params_vars, tmpl, api_results, filtered_results, k,
                   v, idx, r, flattened, merged_params, to_add, tested,
                   expanded, listed, answer>>

\* run_query, lines 56-58: k, v = params['filter'].split('=', 1).
SplitFilter ==
    /\ pc = "split"
    /\ LET parts == split_filter(filter)
       IN  IF Len(parts) = 2
           THEN /\ k' = parts[1]
                /\ v' = parts[2]
                /\ idx' = 1
                /\ pc' = "filter"
                /\ err' = err
           ELSE /\ Abort("ValueError")
                /\ UNCHANGED <<k, v, idx>>
    /\ UNCHANGED <<filter, params_vars, tmpl, api_results, filtered_results, r,
                   flattened, merged_params, to_add, calls, tested, expanded,
                   listed, answer>>

\* run_query, lines 59-65: one pass of the loop over the records.
FilterRecord ==
    /\ pc = "filter"
    /\ idx <= Len(api_results)
    /\ LET rec == api_results[idx]
       IN  IF ~haskey(rec, k)
           THEN /\ Abort("KeyError")
                /\ UNCHANGED <<api_results, filtered_results, idx, tested>>
           ELSE IF getitem(rec, k).t # "s"
           THEN /\ Abort("TypeError")
                /\ UNCHANGED <<api_results, filtered_results, idx, tested>>
           ELSE LET match == re_search(v, getitem(rec, k).v)
                    rec2 == add_groups(rec, match.groups, 0)
                IN  /\ tested' = tested + 1
                    /\ idx' = idx + 1
                    /\ UNCHANGED <<pc, err>>
                    /\ IF match.matched
                       THEN /\ api_results' = [api_results EXCEPT ![idx] = rec2]
                            /\ filtered_results' = Append(filtered_results, rec2)
                       ELSE UNCHANGED <<api_results, filtered_results>>
    /\ UNCHANGED <<filter, params_vars, tmpl, k, v, r, flattened, merged_params,
                   to_add, calls, expanded, listed, answer>>

\* run_query, line 67, and lines 138-139: the loop is over, the script holds
\* the filtered results and an empty to_add.
ReturnQuery ==
    /\ pc = "filter"
    /\ idx > Len(api_results)
    /\ pc' = "expand"
    /\ idx' = 1
    /\ to_add' = <<>>
    /\ UNCHANGED <<filter, params_vars, tmpl, api_results, filtered_results, k,
                   v, r, flattened, merged_params, calls, err, tested, expanded,
                   listed, answer>>

\* Lines 140-148: one pass of the loop over the filtered results.
Expand ==
    /\ pc = "expand"
    /\ idx <= Len(filtered_results)
    /\ LET rec == filtered_results[idx]
           merged == merge_params(params_vars, rec)
           after == merge_params_args(params_vars, rec)
       IN  /\ merged_params' = merged
           /\ flattened' = flatten_dict(rec)
           /\ params_vars' = after[1]
           /\ filtered_results' = [filtered_results EXCEPT ![idx] = after[2]]
           /\ r' = after[2]
           /\ IF sub_ok(tmpl, merged)
              THEN /\ to_add' = collect(to_add, sub(tmpl, merged))
                   /\ expanded' = expanded + 1
                   /\ idx' = idx + 1
                   /\ UNCHANGED <<pc, err>>
              ELSE /\ Abort("KeyError")
                   /\ UNCHANGED <<to_add, expanded, idx>>
    /\ UNCHANGED <<filter, tmpl, api_results, k, v, calls, tested, listed,
                   answer>>

\* Lines 149-163: all results are expanded, the listing starts.
StartListing ==
    /\ pc = "expand"
    /\ idx > Len(filtered_results)
    /\ pc' = "list"
    /\ idx' = 1
    /\ UNCHANGED <<filter, params_vars, tmpl, api_results, filtered_results, k,
                   v, r, flattened, merged_params, to_add, calls, err, tested,
                   expanded, listed, answer>>

\* Lines 163-165: one pass of the loop that logs the titles.
ListTitle ==
    /\ pc = "list"
    /\ idx <= Len(to_add)
    /\ IF title_lookup(to_add[idx]) = "ok"
       THEN /\ listed' = listed + 1
            /\ idx' = idx + 1
            /\ UNCHANGED <<pc, err>>
       ELSE /\ Abort(title_lookup(to_add[idx]))
            /\ UNCHANGED <<listed, idx>>
    /\ UNCHANGED <<filter, params_vars, tmpl, api_results, filtered_results, k,
                   v, r, flattened, merged_params, to_add, calls, tested,
                   expanded, answer>>

\* Line 166: util.confirm returns what the user answered.
Confirm ==
    /\ pc = "list"
    /\ idx > Len(to_add)
    /\ \E yes \in BOOLEAN :
         /\ answer' = IF yes THEN "yes" ELSE "no"
         /\ pc' = IF yes THEN "post" ELSE "done"
    /\ idx' = 1
    /\ UNCHANGED <<filter, params_vars, tmpl, api_results, filtered_results, k,
                   v, r, flattened, merged_params, to_add, calls, err, tested,
                   expanded, listed>>

\* Variant: no except clause.
caught_nothing(e) == FALSE

\* except circonusapi.CirconusAPIError, line 172: the exceptions the
\* submission loop catches.
caught(e) == e = "CirconusAPIError"

\* Lines 167-176: one pass of the submission loop; the POST succeeds or
\* raises CirconusAPIError, which is caught and logged.
Post ==
    /\ pc = "post"
    /\ idx <= Len(to_add)
    /\ IF title_lookup(to_add[idx]) = "ok"
       THEN \E outcome \in {"ok", "CirconusAPIError"} :
              /\ calls' = Append(calls,
                                 Call("POST", getitem(to_add[idx], K_cid).v,
                                      to_add[idx], outcome))
              /\ IF outcome = "ok" \/ caught(outcome)
                 THEN idx' = idx + 1 /\ UNCHANGED <<pc, err>>
                 ELSE Abort(outcome) /\ idx' = idx
       ELSE /\ Abort(title_lookup(to_add[idx]))
            /\ UNCHANGED <<calls, idx>>
    /\ UNCHANGED <<filter, params_vars, tmpl, api_results, filtered_results, k,
                   v, r, flattened, merged_params, to_add, tested, expanded,
                   listed, answer>>

\* The submission loop is over: the script ends.
Finish ==
    /\ pc = "post"
    /\ idx > Len(to_add)
    /\ pc' = "done"
    /\ UNCHANGED <<filter, params_vars, tmpl, api_results, filtered_results, k,
                   v, idx, r, flattened, merged_params, to_add, calls, err,
                   tested, expanded, listed, answer>>

Next ==
    \/ ApiGet
    \/ ApiGetFails
    \/ SplitFilter
    \/ FilterRecord
    \/ ReturnQuery
    \/ Expand
    \/ StartListing
    \/ ListTitle
    \/ Confirm
    \/ Post
    \/ Finish

Spec == Init /\ [][Next]_vars

\* ------------------------------------------- flatten_dict and merge_params
\* The two functions applied to every record of Roots and every mapping of
\* Statics; after FnMerge, params_vars is the static_vars object of the call.
FnInit ==
    /\ pc = "fn"
    /\ r \in Roots
    /\ params_vars = EmptyMap
    /\ filter = <<>>
    /\ tmpl = Dict(<<>>)
    /\ api_results = <<>>
    /\ filtered_results = <<>>
    /\ k = <<>>
    /\ v = <<>>
    /\ idx = 0
    /\ flattened = EmptyMap
    /\ merged_params = EmptyMap
    /\ to_add = <<>>
    /\ calls = <<>>
    /\ err = "none"
    /\ tested = 0
    /\ expanded = 0
    /\ listed = 0
    /\ answer = "none"

\* flattened = flatten_dict(r)
FnFlatten ==
    /\ pc = "fn"
    /\ flattened' = flatten_dict(r)
    /\ r' = flatten_dict_arg(r)
    /\ pc' = "fn_flat"
    /\ UNCHANGED <<filter, params_vars, tmpl, api_results, filtered_results, k,
                   v, idx, merged_params, to_add, calls, err, tested, expanded,
                   listed, answer>>

\* merged_params = merge_params(static_vars, r)
FnMerge ==
    /\ pc = "fn_flat"
    /\ \E static_vars \in Statics :
         /\ merged_params' = merge_params(static_vars, r)
         /\ params_vars' = merge_params_args(static_vars, r)[1]
         /\ r' = merge_params_args(static_vars, r)[2]
    /\ pc' = "fn_merged"
    /\ UNCHANGED <<filter, tmpl, api_results, filtered_results, k, v, idx,
                   flattened, to_add, calls, err, tested, expanded, listed,
                   answer>>

FnNext == FnFlatten \/ FnMerge

FnSpec == FnInit /\ [][FnNext]_vars

\* ================================================================== claims
\* ------------------------------------------------- what the claims speak of
\* The scalar leaves below the value val reached by the path joined to key:
\* the set of <<joined key, leaf>>, sequence positions counted from 0.
RECURSIVE LeafSet(_, _)
LeafSet(key, val) ==
    IF val.t = "d"
    THEN UNION {LeafSet(key \o <<"_">> \o val.items[i][1], val.items[i][2]) :
                  i \in 1..Len(val.items)}
    ELSE IF val.t = "l"
    THEN UNION {LeafSet(key \o <<"_">> \o IntStr(i - 1), val.items[i]) :
                  i \in 1..Len(val.items)}
    ELSE {<<key, val>>}

\* The scalar leaves of the mapping d with their path-joined keys.
Leaves(d) ==
    UNION {LeafSet(d.items[i][1], d.items[i][2]) : i \in 1..Len(d.items)}

\* The leaves below the entries of a mapping or sequence, in the order the
\* claim C3 gives: the scalars, then the nested mappings in key order, then
\* the sequences in key order.  ents is the sequence of <<key, value>>.
RECURSIVE Concat(_)
Concat(ss) == IF ss = <<>> THEN <<>> ELSE Head(ss) \o Concat(Tail(ss))

RECURSIVE OrderedLeaves(_)
OrderedLeaves(ents) ==
    LET Entries(val) ==
            IF val.t = "d" THEN val.items
            ELSE [i \in 1..Len(val.items) |-> <<IntStr(i - 1), val.items[i]>>]
        Below(e) ==
            LET inner == OrderedLeaves(Entries(e[2]))
            IN  [i \in 1..Len(inner) |->
                   <<e[1] \o <<"_">> \o inner[i][1], inner[i][2]>>]
        OfKind(kind) ==
            Concat([i \in 1..Len(ents) |->
                      IF ents[i][2].t # kind THEN <<>>
                      ELSE IF kind \in {"d", "l"} THEN Below(ents[i])
                      ELSE <<ents[i]>>])
    IN  OfKind("s") \o OfKind("n") \o OfKind("d") \o OfKind("l")

\* The value of the last leaf in processing order whose path joins to key.
LastLeaf(d, key) ==
    LET ol == OrderedLeaves(d.items)
        last == CHOOSE i \in 1..Len(ol) :
                  /\ ol[i][1] = key
                  /\ \A j \in (i + 1)..Len(ol) : ol[j][1] # key
    IN  ol[last][2]

\* A record as a mapping from its keys to its values.
AsMap(rec) ==
    [key \in {rec.items[i][1] : i \in 1..Len(rec.items)} |-> getitem(rec, key)]

\* The field and the regex of a filter 'field=regex'.
HasEq(f) == \E i \in 1..Len(f) : f[i] = "="
FirstEq(f) ==
    CHOOSE i \in 1..Len(f) : f[i] = "=" /\ \A j \in 1..(i - 1) : f[j] # "="
FieldOf(f) == SubSeq(f, 1, FirstEq(f) - 1)
RegexOf(f) == SubSeq(f, FirstEq(f) + 1, Len(f))

\* The name groupN.
GroupName(n) == <<"g", "r", "o", "u", "p">> \o IntStr(n)

\* The POST calls made so far, in order.
IsPost(c) == c.method = "POST"
Posts == SelectSeq(calls, IsPost)

\* The records the GET returned, as they were returned.
Fetched ==
    IF calls # <<>> /\ calls[1].outcome = "ok" THEN calls[1].data.items
    ELSE <<>>

\* ---------------------------------------------------------------------- C1
\* C1 (as claimed): merge_params(static_vars, record) has the keys of
\* static_vars and of flatten_dict(record); every key of static_vars maps to
\* its static value, every other key to its flattened value.
C1_StaticEntriesWin ==
    pc = "fn_merged" =>
      /\ DOMAIN merged_params = DOMAIN params_vars \cup DOMAIN flattened
      /\ \A key \in DOMAIN merged_params :
           merged_params[key] = IF key \in DOMAIN params_vars
                                THEN params_vars[key] ELSE flattened[key]

\* ---------------------------------------------------------------------- C2
\* C2 (as claimed): no value of flatten_dict(d) is a mapping or a sequence,
\* and every scalar leaf of d is the value of its path-joined key.
C2_EveryLeafPresent ==
    pc = "fn_flat" =>
      /\ \A key \in DOMAIN flattened : flattened[key].t \notin {"d", "l"}
      /\ \A lf \in Leaves(r) :
           lf[1] \in DOMAIN flattened /\ flattened[lf[1]] = lf[2]

\* C2 (amended): no value of flatten_dict(d) is a mapping or a sequence, the
\* keys of the output are exactly the path-joined keys of the scalar leaves
\* of d, and a leaf is the value of its key whenever no other leaf's path
\* joins to the same key (otherwise the key holds one of those leaves).
C2_EveryLeafKeyPresent ==
    pc = "fn_flat" =>
      /\ \A key \in DOMAIN flattened : flattened[key].t \notin {"d", "l"}
      /\ DOMAIN flattened = {lf[1] : lf \in Leaves(r)}
      /\ \A lf \in Leaves(r) :
           /\ lf[1] \in DOMAIN flattened
           /\ <<lf[1], flattened[lf[1]]>> \in Leaves(r)
           /\ (\A other \in Leaves(r) : other[1] = lf[1] => other = lf)
                => flattened[lf[1]] = lf[2]

\* A record with a leaf three levels down, next to another entry, flattened.
C2_Witness ==
    /\ pc = "fn_flat"
    /\ Len(r.items) = 2
    /\ \E lf \in Leaves(r) : lf[1] = <<"a", "_", "b", "_", "0">>
    /\ \E i \in 1..2 : r.items[i][2].t = "l" /\ r.items[i][2].items # <<>>

\* ---------------------------------------------------------------------- C3
\* C3: the output of flatten_dict holds one entry per path-joined key, whose
\* value is that of the path processed last (scalars, then nested mappings
\* in key order, then sequences in key order); flatten({"a": {"b": 1},
\* "a_b": 2}) is {"a_b": 1} in both orders of the two keys.
C3_LaterPathWins ==
    pc = "fn_flat" =>
      /\ DOMAIN flattened = {lf[1] : lf \in Leaves(r)}
      /\ \A key \in DOMAIN flattened : flattened[key] = LastLeaf(r, key)
      /\ r \in {Dict(<< <<K_a, Dict(<< <<K_b, Num(<<"1">>)>> >>)>>,
                        <<K_a_b, Num(<<"2">>)>> >>),
                Dict(<< <<K_a_b, Num(<<"2">>)>>,
                        <<K_a, Dict(<< <<K_b, Num(<<"1">>)>> >>)>> >>)}
           => flattened = K_a_b :> Num(<<"1">>)

\* A sequence listed before a nested mapping whose paths join to the same
\* key as the sequence's: the sequence is processed later and wins.
C3_Witness ==
    /\ pc = "fn_flat"
    /\ r = Dict(<< <<K_a_b, List(<<Num(<<"2">>)>>)>>,
                   <<K_a, Dict(<< <<K_b_0, Num(<<"1">>)>> >>)>> >>)
    /\ flattened = <<"a", "_", "b", "_", "0">> :> Num(<<"2">>)

\* ---------------------------------------------------------------------- C4
\* C4: for a filter 'field=regex', run_query returns exactly the fetched
\* records whose field the regex matches (search), in their order, each
\* once; a returned record is the fetched record plus one entry groupN per
\* capture group, N from 1, holding the captured text; a record that does
\* not match is left as fetched.
C4_FilterContract ==
    (pc = "expand" /\ idx = 1 /\ expanded = 0) =>
      LET orig == Fetched
          Found(i) ==
              re_search(RegexOf(filter), getitem(orig[i], FieldOf(filter)).v)
          M == {i \in 1..Len(orig) : Found(i).matched}
          Rank(i) == Cardinality({j \in M : j <= i})
      IN  /\ Len(filtered_results) = Cardinality(M)
          /\ \A i \in M :
               LET out == AsMap(filtered_results[Rank(i)])
                   in == AsMap(orig[i])
                   g == Found(i).groups
                   GN == {GroupName(n) : n \in 1..Len(g)}
               IN  /\ DOMAIN out = DOMAIN in \cup GN
                   /\ \A n \in 1..Len(g) : out[GroupName(n)] = Sc(g[n])
                   /\ \A key \in DOMAIN in \ GN : out[key] = in[key]
          /\ \A i \in (1..Len(orig)) \ M : api_results[i] = orig[i]

\* run_query has returned one of two fetched records: the first does not
\* match, the second matches in the middle of its field, with two groups.
C4_Witness ==
    /\ pc = "expand" /\ idx = 1 /\ expanded = 0
    /\ filter = F_two
    /\ Fetched = <<R_uplink, R_port12>>
    /\ Len(filtered_results) = 1
    /\ getitem(filtered_results[1], GroupName(2)) = Sc(<<"1">>)

\* ---------------------------------------------------------------------- C5
\* C5: once the user has confirmed, the script never aborts; the POST calls
\* made are one per record of to_add, in the order of to_add, each to the
\* record's _cid, whatever the outcome of the earlier POSTs, and when the
\* script is done every record has been submitted exactly once.
C5_OnePostPerRecord ==
    answer = "yes" =>
      /\ pc \in {"post", "done"}
      /\ Len(Posts) = IF pc = "done" THEN Len(to_add) ELSE idx - 1
      /\ \A i \in 1..Len(Posts) :
           /\ Posts[i].data = to_add[i]
           /\ Posts[i].path = getitem(to_add[i], K_cid).v

\* The script is done; the first POST failed and the second was still made.
C5_Witness ==
    /\ pc = "done"
    /\ Len(to_add) = 2
    /\ Len(Posts) = 2
    /\ Posts[1].outcome = "CirconusAPIError"
    /\ Posts[2].outcome = "ok"

\* ---------------------------------------------------------------------- C6
\* C6: to_add is the concatenation, in result order, of the outputs of the
\* results expanded so far, each the substitution of every template of the
\* root with the variables merged from the same static variables; after the
\* loop its length is the number of filtered results times the number of
\* templates.
NumTemplates == IF tmpl.t = "l" THEN Len(tmpl.items) ELSE 1
TemplateAt(j) == IF tmpl.t = "l" THEN tmpl.items[j] ELSE tmpl

C6_OutputsConcatenated ==
    LET done == IF pc = "expand" THEN idx - 1
                ELSE IF pc \in {"list", "post", "done"}
                THEN Len(filtered_results) ELSE 0
    IN  pc \in {"expand", "list", "post", "done"} =>
          /\ Len(to_add) = done * NumTemplates
          /\ \A i \in 1..done : \A j \in 1..NumTemplates :
               to_add[(i - 1) * NumTemplates + j]
                 = sub(TemplateAt(j),
                       merge_params(params_vars, filtered_results[i]))

\* Two results expanded with a root of two templates: four output records.
C6_Witness ==
    /\ pc = "list"
    /\ tmpl = T_pair
    /\ Len(filtered_results) = 2
    /\ filtered_results[1] # filtered_results[2]
    /\ Len(to_add) = 4

\* ---------------------------------------------------------------------- C7
\* C7: the variables merged for a filtered result hold, under every groupN,
\* the N-th capture group of the result's match, also when a command-line
\* variable or a field of the record is named groupN; template
\* {"_cid":"/graph","title":"Port {group1}"}, filter
\* 'display_name=port (\d+)' and the one result {"display_name":"port 7"}
\* give the one output record {"_cid":"/graph","title":"Port 7"}.
C7_CaptureGroupVariables ==
    /\ r # Dict(<<>>) =>
         LET m == re_search(RegexOf(filter), getitem(r, FieldOf(filter)).v)
         IN  /\ m.matched
             /\ \A n \in 1..Len(m.groups) :
                  /\ GroupName(n) \in DOMAIN merged_params
                  /\ merged_params[GroupName(n)] = Sc(m.groups[n])
    /\ (/\ pc \in {"list", "post", "done"}
        /\ filter = F_port
        /\ tmpl = T_graph
        /\ Fetched = <<R_port7>>)
         => to_add = <<Dict(<< <<K_cid, Sc(C_graph)>>,
                               <<K_title, Sc(V_Port7)>> >>)>>

\* A result whose own field group1 was "orig", expanded while the command
\* line also sets group1.
C7_Witness ==
    /\ pc = "list"
    /\ filter = F_port
    /\ K_group1 \in DOMAIN params_vars
    /\ Fetched = <<R_port12>>
    /\ merged_params[K_group1] = Sc(<<"1", "2">>)

CidKnown(rec) ==
    /\ haskey(rec, K_cid)
    /\ getitem(rec, K_cid).t = "s"
    /\ getitem(rec, K_cid).v \in DOMAIN title_fields

C9_NoPostBeforeBatchPrepared ==
    /\ Posts # <<>> =>
         /\ answer = "yes"
         /\ expanded = Len(filtered_results)
         /\ listed = Len(to_add)
         /\ Len(to_add) = Len(filtered_results) * NumTemplates
         /\ \A i \in 1..Len(filtered_results) :
              sub_ok(tmpl, merge_params(params_vars, filtered_results[i]))
         /\ \A i \in 1..Len(to_add) : CidKnown(to_add[i])
    /\ (pc = "aborted" \/ answer = "no") => Posts = <<>>

\* The substitution succeeded for the first result and failed for the
\* second: the run is over with one output record and no POST.
C9_Witness ==
    /\ pc = "aborted"
    /\ err = "KeyError"
    /\ expanded = 1
    /\ Len(to_add) = 1
    /\ Len(filtered_results) = 2
    /\ Posts = <<>>

\* --------------------------------------------------------------------- C10
\* C10: with a filter without '=', the default '.*' included, the script
\* gets no further than the split of the filter: once the GET has returned
\* it ends with ValueError, no record is tested, and there are no filtered
\* results, no output records and no POST.
C10_FilterNeedsEq ==
    ~HasEq(filter) =>
      /\ pc \in {"query", "split", "aborted"}
      /\ pc = "aborted" =>
           \/ err = "ValueError" /\ Len(calls) = 1 /\ calls[1].outcome = "ok"
           \/ err = "CirconusAPIError" /\ calls[1].outcome = "CirconusAPIError"
      /\ tested = 0
      /\ filtered_results = <<>>
      /\ to_add = <<>>
      /\ Posts = <<>>

\* The default filter: the GET returned two records and the run ended.
C10_Witness ==
    /\ filter = F_default
    /\ pc = "aborted"
    /\ err = "ValueError"
    /\ Len(Fetched) = 2
    /\ tested = 0

====
